---------------------------- MODULE Spec2Model ----------------------------
(***************************************************************************)
(* QRIS payload builder, validator and CRC16 engine of OrderKuota-go       *)
(* (src/qris/qris.go).  Go strings are modelled as sequences of byte       *)
(* values (0..255); the ASCII text of each literal is given in a comment.  *)
(***************************************************************************)
EXTENDS Integers, Sequences, FiniteSets, TLC

VARIABLES
    q,      \* the *QRIS instance last returned by NewQRIS (its config), or NoInstance
    call    \* the call the caller has just made: operation, arguments and what it
            \* returned; [op |-> "none"] once the caller has dropped the result

vars == <<q, call>>

(***************************************************************************)
(* Bounds of the model                                                     *)
(***************************************************************************)
\* generateCRC is exercised on every byte sequence over CrcBytes up to this length
MaxCrcLen == 3

(***************************************************************************)
(* Literals of the program                                                 *)
(***************************************************************************)
CountryID  == <<53, 56, 48, 50, 73, 68>>      \* "5802ID"
StaticPOI  == <<48, 49, 48, 50, 49, 49>>      \* "010211"
DynamicPOI == <<48, 49, 48, 50, 49, 50>>      \* "010212"
AmountTag  == <<53, 52>>                      \* "54"
MinQRISLength == 20
InitRegister  == 65535                        \* 0xFFFF

Nil        == "nil"
NoInstance == [nil |-> TRUE]                 \* the nil *QRIS
ErrConfigEmpty  == "merchantID, apiKey, and baseQrString must be filled"
ErrConfigFormat == "invalid baseQrString format"
ErrAmount       == "amount must be greater than 0"
ErrTransaction  == "transactionID must be filled"
ErrCountry      == "invalid QRIS format: country ID not found"
ErrTooShort     == "QRIS string too short"
ErrMerchant     == "merchant ID mismatch"
ErrAmountFormat == "invalid amount format"
ErrChecksum     == "invalid checksum"
ErrRender       == "failed to generate QR code"
ErrGenerateCountry ==
    "failed to generate QRIS string: invalid QRIS format: country ID not found"

(***************************************************************************)
(* Go's string operations                                                  *)
(***************************************************************************)
\* s[lo:hi], 0-based, half-open
Slice(s, lo, hi) == SubSeq(s, lo + 1, hi)

\* strings.Index(s, sub): 0-based index of the first occurrence, or -1
Index(s, sub) ==
    LET hits == {i \in 0..(Len(s) - Len(sub)) : Slice(s, i, i + Len(sub)) = sub}
    IN  IF hits = {} THEN -1 ELSE CHOOSE i \in hits : \A j \in hits : i <= j

\* strings.Contains(s, sub)
Contains(s, sub) == Index(s, sub) >= 0

\* variant: strings.Replace(s, old, new, -1), every occurrence
RECURSIVE ReplaceFirst_All(_, _, _)
ReplaceFirst_All(s, old, new) ==
    LET i == Index(s, old)
    IN  IF i = -1 THEN s
        ELSE Slice(s, 0, i) \o new
               \o ReplaceFirst_All(Slice(s, i + Len(old), Len(s)), old, new)

\* strings.Replace(s, old, new, 1): the first occurrence only
ReplaceFirst(s, old, new) ==
    LET i == Index(s, old)
    IN  IF i = -1 THEN s
        ELSE Slice(s, 0, i) \o new \o Slice(s, i + Len(old), Len(s))

\* the decimal digits of n >= 0, as bytes
RECURSIVE Digits(_)
Digits(n) == IF n < 10 THEN <<48 + n>> ELSE Digits(n \div 10) \o <<48 + (n % 10)>>

\* fmt.Sprintf("%d", n)
FormatD(n) == IF n < 0 THEN <<45>> \o Digits(-n) ELSE Digits(n)

\* fmt.Sprintf("%02d", n)
Format02D(n) == IF n >= 0 /\ n < 10 THEN <<48>> \o Digits(n) ELSE FormatD(n)

\* one uppercase hexadecimal digit
HexDigit(d) == IF d < 10 THEN 48 + d ELSE 55 + d

\* fmt.Sprintf("%04X", v) of a uint16
Format04X(v) ==
    << HexDigit(v \div 4096), HexDigit((v \div 256) % 16),
       HexDigit((v \div 16) % 16), HexDigit(v % 16) >>

(***************************************************************************)
(* generateCRC (uint16 arithmetic)                                         *)
(***************************************************************************)
\* a ^ b on naturals
RECURSIVE Xor(_, _)
Xor(a, b) ==
    IF a = 0 THEN b
    ELSE IF b = 0 THEN a
    ELSE (((a % 2) + (b % 2)) % 2) + 2 * Xor(a \div 2, b \div 2)

\* v ^ w for a single-bit w
FlipBit(v, w) == IF (v \div w) % 2 = 1 THEN v - w ELSE v + w

\* v ^ 0x1021  (0x1021 = 4096 + 32 + 1)
XorPoly(v) == FlipBit(FlipBit(FlipBit(v, 4096), 32), 1)

\* the inner loop body: one shift of the register
ShiftStep(crc) ==
    IF crc >= 32768 THEN XorPoly((crc * 2) % 65536) ELSE (crc * 2) % 65536

\* for j := 0; j < 8; j++ { ... }
RECURSIVE ShiftLoop(_, _)
ShiftLoop(crc, j) == IF j >= 8 THEN crc ELSE ShiftLoop(ShiftStep(crc), j + 1)

\* crc ^= uint16(data[i]) << 8 : only the high byte of the register changes
XorHighByte(crc, b) == Xor(crc \div 256, b) * 256 + (crc % 256)

\* for i := 0; i < len(data); i++ { ... }, from byte i (1-based) on
RECURSIVE ByteLoop(_, _, _)
ByteLoop(data, i, crc) ==
    IF crc < 0 \/ i > Len(data) THEN crc
    ELSE ByteLoop(data, i + 1, ShiftLoop(XorHighByte(crc, data[i]), 0))

\* variant: the register starts at 0x0000 (CRC-16/XMODEM)
generateCRC_ZeroInit(data) == Format04X(ByteLoop(data, 1, 0))

\* variant: the byte loop stops one byte early
generateCRC_SkipLast(data) ==
    Format04X(ByteLoop(SubSeq(data, 1, Len(data) - 1), 1, InitRegister))

generateCRC(data) == Format04X(ByteLoop(data, 1, InitRegister))


(***************************************************************************)
(* Operations of QRIS                                                      *)
(***************************************************************************)
\* variant: the country anchor of the base string is not checked
NewQRISError_NoAnchorCheck(config) ==
    IF config.MerchantID = <<>> \/ config.APIKey = "" \/ config.BaseQrString = <<>>
    THEN ErrConfigEmpty
    ELSE Nil

\* NewQRIS: the error it returns (Nil when it returns an instance)
NewQRISError(config) ==
    IF config.MerchantID = <<>> \/ config.APIKey = "" \/ config.BaseQrString = <<>>
    THEN ErrConfigEmpty
    ELSE IF ~Contains(config.BaseQrString, CountryID)
    THEN ErrConfigFormat
    ELSE Nil

\* variant: the length is formatted with %d instead of %02d
amountTag_NoPad(amount) ==
    LET amountStr == FormatD(amount)
    IN  AmountTag \o FormatD(Len(amountStr)) \o amountStr

\* amountTag := fmt.Sprintf("54%02d%s", len(amountStr), amountStr)
amountTag(amount) ==
    LET amountStr == FormatD(amount)
    IN  AmountTag \o Format02D(Len(amountStr)) \o amountStr

\* q.config.BaseQrString[:len(q.config.BaseQrString)-4]
stripCRC(base) == Slice(base, 0, Len(base) - 4)

\* variant: the checksum is computed before the amount field is inserted
generateQRISString_CrcBeforeAmount(config, data) ==
    IF Len(config.BaseQrString) < 4
    THEN [str |-> <<>>, err |-> Nil, panic |-> TRUE]
    ELSE
      LET baseString     == ReplaceFirst(stripCRC(config.BaseQrString), StaticPOI, DynamicPOI)
          insertPosition == Index(baseString, CountryID)
          qrString       == Slice(baseString, 0, insertPosition)
                              \o amountTag(data.Amount)
                              \o Slice(baseString, insertPosition, Len(baseString))
      IN  IF insertPosition = -1
          THEN [str |-> <<>>, err |-> ErrCountry, panic |-> FALSE]
          ELSE [str |-> qrString \o generateCRC(baseString), err |-> Nil, panic |-> FALSE]

\* variant: the transaction id is written into the payload, before the checksum
generateQRISString_WithID(config, data) ==
    IF Len(config.BaseQrString) < 4
    THEN [str |-> <<>>, err |-> Nil, panic |-> TRUE]
    ELSE
      LET baseString     == ReplaceFirst(stripCRC(config.BaseQrString), StaticPOI, DynamicPOI)
          insertPosition == Index(baseString, CountryID)
          qrString       == Slice(baseString, 0, insertPosition)
                              \o amountTag(data.Amount)
                              \o Slice(baseString, insertPosition, Len(baseString))
                              \o (IF data.TransactionID = "T1" THEN <<49>> ELSE <<50>>)
      IN  IF insertPosition = -1
          THEN [str |-> <<>>, err |-> ErrCountry, panic |-> FALSE]
          ELSE [str |-> qrString \o generateCRC(qrString), err |-> Nil, panic |-> FALSE]

\* generateQRISString: [str, err, panic]; the slice panics when len < 4
generateQRISString(config, data) ==
    IF Len(config.BaseQrString) < 4
    THEN [str |-> <<>>, err |-> Nil, panic |-> TRUE]
    ELSE
      LET baseString     == ReplaceFirst(stripCRC(config.BaseQrString), StaticPOI, DynamicPOI)
          insertPosition == Index(baseString, CountryID)
          qrString       == Slice(baseString, 0, insertPosition)
                              \o amountTag(data.Amount)
                              \o Slice(baseString, insertPosition, Len(baseString))
      IN  IF insertPosition = -1
          THEN [str |-> <<>>, err |-> ErrCountry, panic |-> FALSE]
          ELSE [str |-> qrString \o generateCRC(qrString), err |-> Nil, panic |-> FALSE]

\* variant: the transaction id is checked before the amount
GetQRISStringResult_TxFirst(config, data) ==
    IF data.TransactionID = ""
    THEN [str |-> <<>>, err |-> ErrTransaction, panic |-> FALSE]
    ELSE IF data.Amount <= 0
    THEN [str |-> <<>>, err |-> ErrAmount, panic |-> FALSE]
    ELSE generateQRISString(config, data)

\* GetQRISString: [str, err, panic]
GetQRISStringResult(config, data) ==
    IF data.Amount <= 0
    THEN [str |-> <<>>, err |-> ErrAmount, panic |-> FALSE]
    ELSE IF data.TransactionID = ""
    THEN [str |-> <<>>, err |-> ErrTransaction, panic |-> FALSE]
    ELSE generateQRISString(config, data)

\* variant: the merchant check comes before the country check
validateRun_MerchantFirst(config, qrString) ==
    IF Len(qrString) < MinQRISLength
    THEN [err |-> ErrTooShort, evaluated |-> <<"length">>]
    ELSE IF ~Contains(qrString, config.MerchantID)
    THEN [err |-> ErrMerchant, evaluated |-> <<"length", "merchant">>]
    ELSE IF ~Contains(qrString, CountryID)
    THEN [err |-> ErrCountry, evaluated |-> <<"length", "merchant", "country">>]
    ELSE IF ~Contains(qrString, AmountTag)
    THEN [err |-> ErrAmountFormat,
          evaluated |-> <<"length", "merchant", "country", "amount">>]
    ELSE IF generateCRC(Slice(qrString, 0, Len(qrString) - 4))
              # Slice(qrString, Len(qrString) - 4, Len(qrString))
    THEN [err |-> ErrChecksum,
          evaluated |-> <<"length", "merchant", "country", "amount", "crc">>]
    ELSE [err |-> Nil,
          evaluated |-> <<"length", "merchant", "country", "amount", "crc">>]

\* ValidateQRISString: the error returned and the checks evaluated before returning
validateRun(config, qrString) ==
    IF Len(qrString) < MinQRISLength
    THEN [err |-> ErrTooShort, evaluated |-> <<"length">>]
    ELSE IF ~Contains(qrString, CountryID)
    THEN [err |-> ErrCountry, evaluated |-> <<"length", "country">>]
    ELSE IF ~Contains(qrString, config.MerchantID)
    THEN [err |-> ErrMerchant, evaluated |-> <<"length", "country", "merchant">>]
    ELSE IF ~Contains(qrString, AmountTag)
    THEN [err |-> ErrAmountFormat,
          evaluated |-> <<"length", "country", "merchant", "amount">>]
    ELSE IF generateCRC(Slice(qrString, 0, Len(qrString) - 4))
              # Slice(qrString, Len(qrString) - 4, Len(qrString))
    THEN [err |-> ErrChecksum,
          evaluated |-> <<"length", "country", "merchant", "amount", "crc">>]
    ELSE [err |-> Nil,
          evaluated |-> <<"length", "country", "merchant", "amount", "crc">>]

\* fmt.Errorf("failed to generate QRIS string / ...: %v", err)
WrapGenerateError(err) ==
    IF err = ErrCountry THEN ErrGenerateCountry ELSE err

\* variant: the code is requested with the medium error-correction level
GenerateQRCodeResult_Medium(config, data, renders) ==
    IF data.Amount <= 0
    THEN [err |-> ErrAmount, panic |-> FALSE, handed |-> FALSE, content |-> <<>>,
          level |-> "", code |-> FALSE]
    ELSE IF data.TransactionID = ""
    THEN [err |-> ErrTransaction, panic |-> FALSE, handed |-> FALSE, content |-> <<>>,
          level |-> "", code |-> FALSE]
    ELSE LET r == generateQRISString(config, data)
         IN  IF r.panic
             THEN [err |-> Nil, panic |-> TRUE, handed |-> FALSE, content |-> <<>>,
                   level |-> "", code |-> FALSE]
             ELSE IF r.err # Nil
             THEN [err |-> WrapGenerateError(r.err), panic |-> FALSE, handed |-> FALSE,
                   content |-> <<>>, level |-> "", code |-> FALSE]
             ELSE [err |-> IF renders THEN Nil ELSE ErrRender, panic |-> FALSE,
                   handed |-> TRUE, content |-> r.str, level |-> "Medium",
                   code |-> renders]

\* GenerateQRCode.  qrcode.New(qrString, qrcode.High) is the external renderer: whether
\* it accepts the content is its own business (renders).  handed: the renderer was
\* called, with content and level; code: a *qrcode.QRCode is returned.
GenerateQRCodeResult(config, data, renders) ==
    IF data.Amount <= 0
    THEN [err |-> ErrAmount, panic |-> FALSE, handed |-> FALSE, content |-> <<>>,
          level |-> "", code |-> FALSE]
    ELSE IF data.TransactionID = ""
    THEN [err |-> ErrTransaction, panic |-> FALSE, handed |-> FALSE, content |-> <<>>,
          level |-> "", code |-> FALSE]
    ELSE LET r == generateQRISString(config, data)
         IN  IF r.panic
             THEN [err |-> Nil, panic |-> TRUE, handed |-> FALSE, content |-> <<>>,
                   level |-> "", code |-> FALSE]
             ELSE IF r.err # Nil
             THEN [err |-> WrapGenerateError(r.err), panic |-> FALSE, handed |-> FALSE,
                   content |-> <<>>, level |-> "", code |-> FALSE]
             ELSE [err |-> IF renders THEN Nil ELSE ErrRender, panic |-> FALSE,
                   handed |-> TRUE, content |-> r.str, level |-> "High",
                   code |-> renders]

(***************************************************************************)
(* Inputs                                                                  *)
(***************************************************************************)
Header      == <<48, 48, 48, 50, 48, 49>>         \* "000201"
ChecksumTag == <<54, 51, 48, 52>>                  \* "6304"
OldCRC      == <<65, 66, 67, 68>>                  \* "ABCD"
Currency    == <<53, 51, 48, 51, 51, 54, 48>>      \* "5303360"
MerchantOK  == <<79, 75, 49>>                      \* "OK1"
MerchantID2 == <<73, 68>>                          \* "ID"
OtherID     == <<88, 89, 57>>                      \* "XY9"
OtherCountry == <<53, 56, 48, 50, 83, 71>>         \* "5802SG"
Amount100   == <<53, 52, 48, 51, 49, 48, 48>>      \* "5403100"

Bases ==
    { Header \o StaticPOI \o MerchantOK \o CountryID \o ChecksumTag \o OldCRC,
      Header \o DynamicPOI \o MerchantOK \o CountryID \o ChecksumTag \o OldCRC,
      StaticPOI \o StaticPOI \o CountryID \o MerchantOK \o CountryID
          \o ChecksumTag \o OldCRC,
      CountryID \o ChecksumTag \o OldCRC,
      StaticPOI \o MerchantOK \o CountryID \o Currency,
      Header \o MerchantOK \o CountryID,
      Header \o StaticPOI \o MerchantOK \o ChecksumTag \o OldCRC,
      <<53, 56>>,
      <<>> }

Configs ==
    [MerchantID : {<<>>, MerchantOK, MerchantID2}, APIKey : {"", "key"},
     BaseQrString : Bases]

Amounts == {-5, 0, 1, 10, 1000, 2147483647}

QRISDatas == [Amount : Amounts, TransactionID : {"", "T1", "T2"}]

\* strings handed to ValidateQRISString: well-formed and malformed in each way
ValidateBodies(config) ==
    { pad \o m \o a \o c \o ChecksumTag :
        pad \in {<<>>, Header \o DynamicPOI},
        m \in {config.MerchantID, OtherID},
        a \in {<<>>, Amount100},
        c \in {CountryID, OtherCountry} }

ValidateInputs(config) ==
    { b \o generateCRC(b) : b \in ValidateBodies(config) }
      \cup { b \o <<48, 48, 48, 48>> : b \in ValidateBodies(config) }

\* the bytes put in place of byte c of a valid string: "0", 0xFF, and c with its
\* lowest or its highest bit flipped
TamperBytes(c) == {48, 255, FlipBit(c, 1), FlipBit(c, 128)} \ {c}

RECURSIVE SeqsUpTo(_, _)
SeqsUpTo(S, n) ==
    IF n = 0 THEN {<<>>}
    ELSE LET shorter == SeqsUpTo(S, n - 1)
         IN  shorter \cup {Append(s, b) : s \in shorter, b \in S}

CheckVector == <<49, 50, 51, 52, 53, 54, 55, 56, 57>>   \* "123456789"

CrcInputs == SeqsUpTo({0, 49, 128, 255}, MaxCrcLen) \cup {CheckVector}

\* variant: generateQRISString keeps the base it has normalised
\* (q.config.BaseQrString = baseString)
configAfter_WriteBack(config, op) ==
    IF op \in {"GetQRISString", "GenerateQRCode"} /\ Len(config.BaseQrString) >= 4
    THEN [config EXCEPT !.BaseQrString =
              ReplaceFirst(stripCRC(config.BaseQrString), StaticPOI, DynamicPOI)]
    ELSE config

\* q.config after a call of GetQRISString, GenerateQRCode or ValidateQRISString on q:
\* the three methods and generateQRISString, generateCRC read q.config and assign
\* only their own locals
configAfter(config, op) == config

(***************************************************************************)
(* The state machine: one action per exported operation                    *)
(***************************************************************************)
Init ==
    /\ q = NoInstance
    /\ call = [op |-> "none"]

Idle == call.op = "none"

NewQRIS(config) ==
    LET err == NewQRISError(config)
    IN  /\ Idle
        /\ q' = IF err = Nil THEN config ELSE q
        /\ call' = [op |-> "NewQRIS", config |-> config, err |-> err,
                    instance |-> IF err = Nil THEN config ELSE NoInstance]

GetQRISString(data) ==
    /\ Idle /\ q # NoInstance
    /\ LET r == GetQRISStringResult(q, data)
       IN  call' = [op |-> "GetQRISString", data |-> data, payload |-> r.str,
                    err |-> r.err, panic |-> r.panic]
    /\ q' = configAfter(q, "GetQRISString")

GenerateQRCode(data, renders) ==
    /\ Idle /\ q # NoInstance
    /\ LET r == GenerateQRCodeResult(q, data, renders)
       IN  call' = [op |-> "GenerateQRCode", data |-> data, err |-> r.err,
                    panic |-> r.panic, handed |-> r.handed, content |-> r.content,
                    level |-> r.level, code |-> r.code]
    /\ q' = configAfter(q, "GenerateQRCode")

ValidateCall(qrString, source) ==
    LET r == validateRun(q, qrString)
    IN  call' = [op |-> "ValidateQRISString", input |-> qrString, source |-> source,
                 err |-> r.err, evaluated |-> r.evaluated,
                 original |-> IF source = "tampered"
                              THEN SubSeq(call.input, 1, Len(call.input) - 4)
                              ELSE <<>>]

\* ValidateQRISString on a string given by the caller
ValidateGiven ==
    /\ Idle /\ q # NoInstance
    /\ \E s \in ValidateInputs(q) : ValidateCall(s, "given")
    /\ q' = configAfter(q, "ValidateQRISString")

\* ValidateQRISString on the payload GetQRISString has just returned
ValidateBuilt ==
    /\ q # NoInstance
    /\ call.op = "GetQRISString" /\ call.err = Nil /\ ~call.panic
    /\ ValidateCall(call.payload, "built")
    /\ q' = configAfter(q, "ValidateQRISString")

\* ValidateQRISString on a string that has just passed, with one character replaced
ValidateTampered ==
    /\ q # NoInstance
    /\ call.op = "ValidateQRISString" /\ call.err = Nil
    /\ \E i \in 1..Len(call.input) : \E c \in TamperBytes(call.input[i]) :
          ValidateCall([call.input EXCEPT ![i] = c], "tampered")
    /\ q' = configAfter(q, "ValidateQRISString")

CallGenerateCRC ==
    /\ Idle /\ q # NoInstance
    /\ \E data \in CrcInputs :
          call' = [op |-> "generateCRC", data |-> data, crc |-> generateCRC(data)]
    /\ UNCHANGED q

\* the caller drops the result of its last call and goes on
Return ==
    /\ ~Idle
    /\ call' = [op |-> "none"]
    /\ UNCHANGED q

Next ==
    \/ \E config \in Configs : NewQRIS(config)
    \/ \E data \in QRISDatas : GetQRISString(data)
    \/ \E data \in QRISDatas : \E renders \in BOOLEAN : GenerateQRCode(data, renders)
    \/ ValidateGiven
    \/ ValidateBuilt
    \/ CallGenerateCRC
    \/ Return

Spec == Init /\ [][Next]_vars

\* the same callers, who may also re-validate a tampered copy of a valid string
NextTamper ==
    \/ Next
    \/ ValidateTampered

SpecTamper == Init /\ [][NextTamper]_vars


(***************************************************************************)
(* Vocabulary of the properties, stated without the program's helpers      *)
(***************************************************************************)
\* sub occurs in s
HasSub(s, sub) ==
    \E i \in 1..(Len(s) - Len(sub) + 1) : SubSeq(s, i, i + Len(sub) - 1) = sub

\* the positions (1-based) at which sub occurs in s
Occurrences(s, sub) ==
    {i \in 1..(Len(s) - Len(sub) + 1) : SubSeq(s, i, i + Len(sub) - 1) = sub}

UpperHex == {48, 49, 50, 51, 52, 53, 54, 55, 56, 57, 65, 66, 67, 68, 69, 70}
HexChars == <<48, 49, 50, 51, 52, 53, 54, 55, 56, 57, 65, 66, 67, 68, 69, 70>>
DecDigits == {48, 49, 50, 51, 52, 53, 54, 55, 56, 57}

\* the number a sequence of decimal digits denotes
RECURSIVE DecValue(_)
DecValue(d) ==
    IF d = <<>> THEN 0 ELSE 10 * DecValue(SubSeq(d, 1, Len(d) - 1)) + (d[Len(d)] - 48)

IsDecimal(d) == d # <<>> /\ \A k \in 1..Len(d) : d[k] \in DecDigits

\* a call that returned a payload
Built == call.op = "GetQRISString" /\ call.err = Nil /\ ~call.panic

(***************************************************************************)
(* Reference CRC-16/CCITT-FALSE: a 16-bit shift register over the message  *)
(* bits, most significant bit first; register <<b15, ..., b0>>.            *)
(***************************************************************************)
PolyBits == <<0, 0, 0, 1,  0, 0, 0, 0,  0, 0, 1, 0,  0, 0, 0, 1>>     \* 0x1021
OnesBits == <<1, 1, 1, 1,  1, 1, 1, 1,  1, 1, 1, 1,  1, 1, 1, 1>>     \* 0xFFFF

\* the bits of a byte, most significant first
ByteBits(b) == [k \in 1..8 |-> (b \div (2 ^ (8 - k))) % 2]

RefShift(reg, bit) ==
    LET out     == (reg[1] + bit) % 2
        shifted == Tail(reg) \o <<0>>
    IN  IF out = 1 THEN [k \in 1..16 |-> (shifted[k] + PolyBits[k]) % 2] ELSE shifted

RECURSIVE RefBits(_, _, _)
RefBits(bits, k, reg) ==
    IF k > Len(bits) THEN reg ELSE RefBits(bits, k + 1, RefShift(reg, bits[k]))

RECURSIVE RefBytes(_, _, _)
RefBytes(data, i, reg) ==
    IF reg[1] < 0 \/ i > Len(data) THEN reg
    ELSE RefBytes(data, i + 1, RefBits(ByteBits(data[i]), 1, reg))

RefNibble(reg, n) ==
    HexChars[1 + 8 * reg[4 * n - 3] + 4 * reg[4 * n - 2] + 2 * reg[4 * n - 1] + reg[4 * n]]

RefCRC(data) ==
    LET reg == RefBytes(data, 1, OnesBits)
    IN  <<RefNibble(reg, 1), RefNibble(reg, 2), RefNibble(reg, 3), RefNibble(reg, 4)>>

(***************************************************************************)
(* C1.  The payload GetQRISString returns passes ValidateQRISString,       *)
(* whenever the instance's base string contains its MerchantID.            *)
(***************************************************************************)
C1_RoundTrip ==
    (call.op = "ValidateQRISString" /\ call.source = "built"
        /\ HasSub(q.BaseQrString, q.MerchantID))
      => call.err = Nil

(***************************************************************************)
(* C2.  generateCRC returns, for every byte sequence, the 4 uppercase hex  *)
(* digits of the CRC-16/CCITT-FALSE register; "" gives "FFFF" and          *)
(* "123456789" gives "29B1".                                               *)
(***************************************************************************)
C2_CRCMatchesReference ==
    call.op = "generateCRC" =>
      /\ Len(call.crc) = 4
      /\ \A k \in 1..4 : call.crc[k] \in UpperHex
      /\ call.crc = RefCRC(call.data)
      /\ (call.data = <<>> => call.crc = <<70, 70, 70, 70>>)
      /\ (call.data = CheckVector => call.crc = <<50, 57, 66, 49>>)

C2_Witness ==
    /\ call.op = "generateCRC"
    /\ call.data = CheckVector
    /\ call.crc = <<50, 57, 66, 49>>

(***************************************************************************)
(* C3.  The last 4 characters of every payload returned by GetQRISString   *)
(* are generateCRC of all the characters before them.                      *)
(***************************************************************************)
C3_ChecksumCoversPrefix ==
    Built =>
      LET p == call.payload
          n == Len(p)
      IN  /\ n >= 4
          /\ SubSeq(p, n - 3, n) = generateCRC(SubSeq(p, 1, n - 4))

C3_Witness ==
    /\ Built
    /\ call.data.Amount = 1000
    /\ HasSub(call.payload, <<53, 52, 48, 52, 49, 48, 48, 48>>)
    /\ Len(call.payload) > Len(q.BaseQrString)

(***************************************************************************)
(* C4.  Every payload returned by GetQRISString ends with "6304" followed  *)
(* by 4 uppercase hex digits.                                              *)
(***************************************************************************)
C4_EndsWithChecksumField ==
    Built =>
      LET p == call.payload
          n == Len(p)
      IN  /\ n >= 8
          /\ SubSeq(p, n - 7, n - 4) = <<54, 51, 48, 52>>
          /\ \A k \in (n - 3)..n : p[k] \in UpperHex

(***************************************************************************)
(* C5.  In every payload returned by GetQRISString for amount a > 0, the   *)
(* field "54" LL D (D the unpadded decimal digits of a, LL the 2-digit     *)
(* zero-padded length of D) ends right where the first "5802ID" begins;    *)
(* amount 1 gives "54011", amount 1000 gives "54041000".                   *)
(***************************************************************************)
\* the field "54" LL D of amount a ends just before position i (1-based) of p
AmountFieldBefore(p, i, a) ==
    \E n \in 1..10 :
        LET D  == SubSeq(p, i - n, i - 1)
            LL == SubSeq(p, i - n - 2, i - n - 1)
            T  == SubSeq(p, i - n - 4, i - n - 3)
        IN  /\ i - n - 4 >= 1
            /\ T = <<53, 52>>
            /\ IsDecimal(LL) /\ Len(LL) = 2 /\ DecValue(LL) = n
            /\ IsDecimal(D) /\ D[1] # 48 /\ DecValue(D) = a

C5_AmountBeforeCountry ==
    Built =>
      LET p   == call.payload
          occ == Occurrences(p, CountryID)
      IN  /\ occ # {}
          /\ LET first == CHOOSE i \in occ : \A j \in occ : i <= j
             IN  /\ AmountFieldBefore(p, first, call.data.Amount)
                 /\ (call.data.Amount = 1 =>
                       SubSeq(p, first - 5, first - 1) = <<53, 52, 48, 49, 49>>)
                 /\ (call.data.Amount = 1000 =>
                       SubSeq(p, first - 8, first - 1)
                         = <<53, 52, 48, 52, 49, 48, 48, 48>>)

C5_Witness ==
    /\ Built
    /\ call.data.Amount = 2147483647
    /\ Cardinality(Occurrences(call.payload, CountryID)) = 2
    /\ HasSub(call.payload, <<53, 52, 49, 48, 50, 49, 52, 55>>)

(***************************************************************************)
(* C6.  GetQRISString and GenerateQRCode return an error and no payload    *)
(* when amount <= 0 or transactionID is empty; the amount error comes      *)
(* first; neither error occurs for amount > 0 and a non-empty id.          *)
(***************************************************************************)
NoPayload ==
    /\ call.op = "GetQRISString" => call.payload = <<>>
    /\ call.op = "GenerateQRCode" => ~call.code /\ ~call.handed

C6_InputErrors ==
    call.op \in {"GetQRISString", "GenerateQRCode"} =>
      /\ call.data.Amount <= 0 => call.err = ErrAmount /\ NoPayload
      /\ (call.data.Amount > 0 /\ call.data.TransactionID = "")
            => call.err = ErrTransaction /\ NoPayload
      /\ (call.data.Amount > 0 /\ call.data.TransactionID # "")
            => call.err \notin {ErrAmount, ErrTransaction}

C6_Witness ==
    /\ call.op = "GenerateQRCode"
    /\ call.data.Amount <= 0
    /\ call.data.TransactionID = ""
    /\ call.err = ErrAmount

(***************************************************************************)
(* C7.  NewQRIS fails when MerchantID, APIKey or BaseQrString is empty     *)
(* (checked first) or when BaseQrString lacks "5802ID"; otherwise it       *)
(* returns an instance holding the given configuration.  No payload is     *)
(* ever produced from a base string lacking "5802ID".                      *)
(***************************************************************************)
C7_NewQRIS ==
    /\ call.op = "NewQRIS" =>
         LET c     == call.config
             empty == c.MerchantID = <<>> \/ c.APIKey = "" \/ c.BaseQrString = <<>>
         IN  /\ empty => call.err = ErrConfigEmpty /\ call.instance = NoInstance
             /\ (~empty /\ ~HasSub(c.BaseQrString, CountryID))
                   => call.err = ErrConfigFormat /\ call.instance = NoInstance
             /\ (~empty /\ HasSub(c.BaseQrString, CountryID))
                   => call.err = Nil /\ call.instance = c /\ q = c
    /\ (Built \/ (call.op = "GenerateQRCode" /\ call.handed))
         => HasSub(q.BaseQrString, CountryID)

C7_Witness ==
    /\ call.op = "NewQRIS"
    /\ call.config.MerchantID # <<>> /\ call.config.APIKey # ""
    /\ call.config.BaseQrString # <<>>
    /\ call.err = ErrConfigFormat

(***************************************************************************)
(* C8.  ValidateQRISString checks (a) length >= 20, (b) "5802ID",          *)
(* (c) the MerchantID, (d) "54", (e) the checksum, in this order, returns  *)
(* the error of the first check that fails and evaluates none after it;    *)
(* it returns nil exactly when all five pass.                              *)
(***************************************************************************)
CheckNames  == <<"length", "country", "merchant", "amount", "crc">>
CheckErrors == <<ErrTooShort, ErrCountry, ErrMerchant, ErrAmountFormat, ErrChecksum>>

Passes(k, config, s) ==
    CASE k = 1 -> Len(s) >= 20
      [] k = 2 -> HasSub(s, <<53, 56, 48, 50, 73, 68>>)
      [] k = 3 -> HasSub(s, config.MerchantID)
      [] k = 4 -> HasSub(s, <<53, 52>>)
      [] k = 5 -> /\ Len(s) >= 4
                  /\ SubSeq(s, Len(s) - 3, Len(s))
                       = generateCRC(SubSeq(s, 1, Len(s) - 4))

C8_FirstFailingCheck ==
    call.op = "ValidateQRISString" =>
      LET failing == {k \in 1..5 : ~Passes(k, q, call.input)}
      IN  IF failing = {}
          THEN call.err = Nil /\ call.evaluated = CheckNames
          ELSE LET first == CHOOSE k \in failing : \A j \in failing : k <= j
               IN  /\ call.err = CheckErrors[first]
                   /\ call.evaluated = SubSeq(CheckNames, 1, first)

C8_Witness ==
    /\ call.op = "ValidateQRISString"
    /\ Len(call.input) >= 20
    /\ ~HasSub(call.input, CountryID)
    /\ ~HasSub(call.input, q.MerchantID)
    /\ call.err = ErrCountry

(***************************************************************************)
(* C9.  Replacing any single character of a string that passes             *)
(* ValidateQRISString by a different character gives a string that fails.  *)
(***************************************************************************)
C9_TamperDetected ==
    (call.op = "ValidateQRISString" /\ call.source = "tampered") => call.err # Nil

C9_Witness ==
    /\ call.op = "ValidateQRISString"
    /\ call.source = "tampered"
    /\ call.err = ErrChecksum
    /\ SubSeq(call.input, Len(call.input) - 3, Len(call.input))
         = generateCRC(call.original)

(***************************************************************************)
(* C10.  The build removes the last 4 characters of the base string only   *)
(* when the base ends with a checksum field "6304" + 4 characters; from a  *)
(* base without one, nothing is removed.                                   *)
(***************************************************************************)
HasChecksumField(base) ==
    /\ Len(base) >= 8
    /\ SubSeq(base, Len(base) - 7, Len(base) - 4) = <<54, 51, 48, 52>>

\* the characters of the payload that come from the base string
C10_StripsOnlyChecksum ==
    Built =>
      LET base == q.BaseQrString
          kept == IF HasChecksumField(base) THEN Len(base) - 4 ELSE Len(base)
      IN  Len(call.payload) = kept + Len(amountTag(call.data.Amount)) + 4


(***************************************************************************)
(* C18.  The payload GetQRISString returns is the base string with three   *)
(* changes and no other: the first "010211" of the base minus its last 4   *)
(* characters reads "010212", the amount field stands before the first     *)
(* "5802ID", and the last 4 characters are the new checksum.               *)
(***************************************************************************)
\* the smallest element of a non-empty set of numbers
Least(S) == CHOOSE i \in S : \A j \in S : i <= j

C18_ByteExact ==
    Built =>
      LET p     == call.payload
          b     == q.BaseQrString
          body  == SubSeq(b, 1, Len(b) - 4)
          poi   == Occurrences(body, <<48, 49, 48, 50, 49, 49>>)
          \* the one character the normalisation changes: the last "1" of the
          \* first "010211" (0 when there is none)
          flip  == IF poi = {} THEN 0 ELSE Least(poi) + 5
          anc   == Occurrences(body, <<53, 56, 48, 50, 73, 68>>)
          L     == Len(p) - Len(b)
      IN  /\ anc # {}
          /\ L >= 5
          /\ LET at == Least(anc)
             IN  /\ \A k \in 1..(at - 1) :
                       p[k] = IF k = flip THEN 50 ELSE body[k]
                 /\ AmountFieldBefore(p, at + L, call.data.Amount)
                 /\ SubSeq(p, at, at + 1) = <<53, 52>>
                 /\ \A k \in at..Len(body) :
                       p[k + L] = IF k = flip THEN 50 ELSE body[k]
                 /\ Len(p) = Len(body) + L + 4
                 /\ SubSeq(p, Len(p) - 3, Len(p))
                       = generateCRC(SubSeq(p, 1, Len(p) - 4))

C18_Witness ==
    /\ Built
    /\ Cardinality(Occurrences(q.BaseQrString, <<48, 49, 48, 50, 49, 49>>)) = 2
    /\ Cardinality(Occurrences(call.payload, <<48, 49, 48, 50, 49, 49>>)) = 1
    /\ Cardinality(Occurrences(call.payload, <<48, 49, 48, 50, 49, 50>>)) = 1


(***************************************************************************)
(* Repeated calls on one instance: a call, any number of other calls up to *)
(* MaxOther, then the first call again with the same arguments             *)
(***************************************************************************)
MaxOther == 2

Methods == {"GetQRISString", "GenerateQRCode", "ValidateQRISString"}

\* the instances the repeated calls run on: NewQRIS has returned them
RepeatConfigs ==
    {c \in Configs : NewQRISError(c) = Nil /\ c.APIKey = "key" /\ c.MerchantID = MerchantOK}

InitRepeat ==
    /\ q \in RepeatConfigs
    /\ call = [op |-> "none"]

\* what the call recorded in c returned
ResultOf(c) ==
    CASE c.op = "GetQRISString" -> [str |-> c.payload, err |-> c.err, panic |-> c.panic]
      [] c.op = "GenerateQRCode" ->
            [err |-> c.err, panic |-> c.panic, handed |-> c.handed,
             content |-> c.content, level |-> c.level, code |-> c.code]
      [] c.op = "ValidateQRISString" -> [err |-> c.err, evaluated |-> c.evaluated]

\* what the method and arguments of c return on the instance as it is now; the
\* renderer answers the same content as it did before
Outcome(config, c) ==
    CASE c.op = "GetQRISString" -> GetQRISStringResult(config, c.data)
      [] c.op = "GenerateQRCode" -> GenerateQRCodeResult(config, c.data, c.code)
      [] c.op = "ValidateQRISString" -> validateRun(config, c.input)

\* another method runs on the instance; the caller keeps the first call's result
ThenOther(op) ==
    /\ \/ call.op \in Methods /\ call' = [op |-> "held", held |-> call, after |-> 1]
       \/ /\ call.op = "held" /\ call.after < MaxOther
          /\ call' = [call EXCEPT !.after = @ + 1]
    /\ q' = configAfter(q, op)

\* the first call again, with the same arguments
RepeatCall ==
    /\ call.op \in Methods \cup {"held"}
    /\ LET c == IF call.op = "held" THEN call.held ELSE call
           n == IF call.op = "held" THEN call.after ELSE 0
       IN  /\ call' = [op |-> "repeat", first |-> c, after |-> n,
                       again |-> Outcome(q, c)]
           /\ q' = configAfter(q, c.op)

\* GetQRISString again with the same amount and another transaction id
GetOtherID(tid) ==
    /\ call.op = "GetQRISString"
    /\ call.data.TransactionID # "" /\ tid # "" /\ tid # call.data.TransactionID
    /\ LET data == [call.data EXCEPT !.TransactionID = tid]
       IN  call' = [op |-> "otherid", first |-> call, data |-> data,
                    again |-> GetQRISStringResult(q, data)]
    /\ q' = configAfter(q, "GetQRISString")

NextRepeat ==
    \/ \E data \in QRISDatas : GetQRISString(data)
    \/ \E data \in QRISDatas : \E renders \in BOOLEAN : GenerateQRCode(data, renders)
    \/ ValidateGiven
    \/ ValidateBuilt
    \/ \E op \in Methods : ThenOther(op)
    \/ RepeatCall
    \/ \E tid \in {d.TransactionID : d \in QRISDatas} : GetOtherID(tid)
    \/ Return

SpecRepeat == InitRepeat /\ [][NextRepeat]_vars

(***************************************************************************)
(* C11.  Statelessness: no call of GetQRISString, GenerateQRCode or        *)
(* ValidateQRISString, successful or failing, changes the configuration    *)
(* the instance was constructed with, and a call repeated with the same    *)
(* arguments after any other calls returns what it returned the first time.*)
(***************************************************************************)
C11_Stateless ==
    [][ /\ q' = q
        /\ call'.op = "repeat" => call'.again = ResultOf(call'.first) ]_vars

C11_Witness ==
    /\ call.op = "repeat"
    /\ call.after = MaxOther
    /\ call.first.op = "GetQRISString"
    /\ call.first.err = Nil /\ ~call.first.panic
    /\ call.again.str = call.first.payload
    /\ Len(call.again.str) > 0

\* a failing validation repeated after other calls
C11_WitnessValidate ==
    /\ call.op = "repeat"
    /\ call.after >= 1
    /\ call.first.op = "ValidateQRISString"
    /\ call.first.err = ErrChecksum


(***************************************************************************)
(* Several goroutines on one instance.  Each runs one GetQRISString or one *)
(* ValidateQRISString; a step is the code between two reads of q.config,   *)
(* and the steps of different goroutines interleave freely.                *)
(***************************************************************************)
NThreads == 2

Threads == 1..NThreads

NoResult == [none |-> TRUE]

ConcConfigs ==
    {c \in RepeatConfigs :
        c.BaseQrString \in
          { Header \o StaticPOI \o MerchantOK \o CountryID \o ChecksumTag \o OldCRC,
            StaticPOI \o StaticPOI \o CountryID \o MerchantOK \o CountryID
                \o ChecksumTag \o OldCRC }}

ConcDatas == {d \in QRISDatas : d.Amount \in {0, 10} /\ d.TransactionID = "T1"}

ConcInputs(config) ==
    LET bodies == { Header \o DynamicPOI \o m \o Amount100 \o CountryID \o ChecksumTag :
                      m \in {config.MerchantID, OtherID} }
    IN  { b \o generateCRC(b) : b \in bodies }
          \cup { Header \o DynamicPOI \o config.MerchantID \o Amount100 \o CountryID
                   \o ChecksumTag \o <<48, 48, 48, 48>> }

\* the invocations a goroutine may make
ConcCalls(config) ==
    [op : {"GetQRISString"}, arg : ConcDatas]
      \cup [op : {"ValidateQRISString"}, arg : ConcInputs(config)]

\* the instance is constructed and each goroutine has been handed its invocation
InitConc ==
    /\ q \in ConcConfigs
    /\ \E cs \in [Threads -> ConcCalls(q)] :
          call = [op |-> "threads", shared |-> q,
                  t |-> [i \in Threads |->
                           [pc |-> "idle", op |-> cs[i].op, arg |-> cs[i].arg,
                            local |-> <<>>, result |-> NoResult]]]

\* goroutine i changes its own frame to f; q.config becomes c
ThreadStep(i, f, c) ==
    /\ call' = [call EXCEPT !.t[i] = f]
    /\ q' = c

Done(th, r) == [th EXCEPT !.pc = "done", !.result = r]

\* go q.GetQRISString(data) / go q.ValidateQRISString(s): the goroutine is scheduled
ThreadStart(i) ==
    /\ call.t[i].pc = "idle"
    /\ ThreadStep(i, [call.t[i] EXCEPT !.pc = "entry"], q)

\* GetQRISString: the argument checks
GetEntry(i) ==
    LET th == call.t[i]
    IN  /\ th.pc = "entry" /\ th.op = "GetQRISString"
        /\ ThreadStep(i,
             IF th.arg.Amount <= 0
             THEN Done(th, [str |-> <<>>, err |-> ErrAmount, panic |-> FALSE])
             ELSE IF th.arg.TransactionID = ""
             THEN Done(th, [str |-> <<>>, err |-> ErrTransaction, panic |-> FALSE])
             ELSE [th EXCEPT !.pc = "base"], q)

\* generateQRISString: reads q.config.BaseQrString into the local baseString
GetBase(i) ==
    LET th == call.t[i]
    IN  /\ th.pc = "base"
        /\ ThreadStep(i,
             IF Len(q.BaseQrString) < 4
             THEN Done(th, [str |-> <<>>, err |-> Nil, panic |-> TRUE])
             ELSE [th EXCEPT !.pc = "insert",
                             !.local = ReplaceFirst(stripCRC(q.BaseQrString),
                                                    StaticPOI, DynamicPOI)],
             configAfter(q, "GetQRISString"))

\* generateQRISString: the amount field and the checksum, on locals only
GetInsert(i) ==
    LET th             == call.t[i]
        baseString     == th.local
        insertPosition == Index(baseString, CountryID)
        qrString       == Slice(baseString, 0, insertPosition)
                            \o amountTag(th.arg.Amount)
                            \o Slice(baseString, insertPosition, Len(baseString))
    IN  /\ th.pc = "insert"
        /\ ThreadStep(i,
             IF insertPosition = -1
             THEN Done(th, [str |-> <<>>, err |-> ErrCountry, panic |-> FALSE])
             ELSE Done(th, [str |-> qrString \o generateCRC(qrString), err |-> Nil,
                            panic |-> FALSE]), q)

\* ValidateQRISString: the length and country checks, on the argument only
ValidateEntry(i) ==
    LET th == call.t[i]
    IN  /\ th.pc = "entry" /\ th.op = "ValidateQRISString"
        /\ ThreadStep(i,
             IF Len(th.arg) < MinQRISLength
             THEN Done(th, [err |-> ErrTooShort, evaluated |-> <<"length">>])
             ELSE IF ~Contains(th.arg, CountryID)
             THEN Done(th, [err |-> ErrCountry, evaluated |-> <<"length", "country">>])
             ELSE [th EXCEPT !.pc = "merchant"], q)

\* ValidateQRISString: reads q.config.MerchantID, then checks amount tag and checksum
ValidateMerchant(i) ==
    LET th == call.t[i]
        s  == th.arg
    IN  /\ th.pc = "merchant"
        /\ ThreadStep(i,
             IF ~Contains(s, q.MerchantID)
             THEN Done(th, [err |-> ErrMerchant,
                            evaluated |-> <<"length", "country", "merchant">>])
             ELSE IF ~Contains(s, AmountTag)
             THEN Done(th, [err |-> ErrAmountFormat,
                            evaluated |-> <<"length", "country", "merchant", "amount">>])
             ELSE IF generateCRC(Slice(s, 0, Len(s) - 4)) # Slice(s, Len(s) - 4, Len(s))
             THEN Done(th, [err |-> ErrChecksum,
                            evaluated |-> <<"length", "country", "merchant", "amount",
                                            "crc">>])
             ELSE Done(th, [err |-> Nil,
                            evaluated |-> <<"length", "country", "merchant", "amount",
                                            "crc">>]),
             configAfter(q, "ValidateQRISString"))

NextConc ==
    \E i \in Threads :
        \/ ThreadStart(i)
        \/ GetEntry(i)
        \/ GetBase(i)
        \/ GetInsert(i)
        \/ ValidateEntry(i)
        \/ ValidateMerchant(i)

SpecConc == InitConc /\ [][NextConc]_vars

(***************************************************************************)
(* C12.  Goroutines running GetQRISString and ValidateQRISString on one    *)
(* instance, under any interleaving: no step writes the shared             *)
(* configuration, and each invocation returns what the same invocation     *)
(* returns when it runs alone on the instance.                             *)
(***************************************************************************)
\* the result of the invocation of frame th run alone on the instance config
Alone(config, th) ==
    IF th.op = "GetQRISString"
    THEN GetQRISStringResult(config, th.arg)
    ELSE validateRun(config, th.arg)

C12_RaceFree ==
    [][ /\ q' = q
        /\ \A i \in Threads :
              call'.t[i].pc = "done"
                 => call'.t[i].result = Alone(call'.shared, call'.t[i]) ]_vars

\* two invocations that overlapped: both are done, both built a payload or one
\* built while the other validated
C12_Witness ==
    /\ call.op = "threads"
    /\ \A i \in Threads : call.t[i].pc = "done"
    /\ \E i, j \in Threads :
          /\ i # j
          /\ call.t[i].op = "GetQRISString" /\ call.t[i].result.err = Nil
          /\ call.t[j].op = "ValidateQRISString" /\ call.t[j].result.err = Nil


(***************************************************************************)
(* CheckPaymentStatus (qris/payment_checker.go) and its multi-format       *)
(* variant.  Instants are whole minutes.  A date string is a pair of its   *)
(* written layout and the instant it denotes:                              *)
(*   "offset"  2006-01-02T15:04:05+07:00     "zulu"    2006-01-02T15:04:05Z*)
(*   "millis"  2006-01-02T15:04:05.000Z      "space"   2006-01-02 15:04:05 *)
(*   "garbage" text no layout accepts        "empty"   the empty string    *)
(***************************************************************************)
MaxTx == 3

\* 30*time.Minute and 5*time.Minute
Window30 == 30
Window5 == 5

\* the largest int64 ParseInt returns, narrowed to the 32 bits of a TLC integer
MaxInt64 == 2147483647

\* time.Time{}: what a failed time.Parse returns, long before every instant
ZeroTime == -1000000

NoStatus == [nil |-> TRUE]

ErrArguments == "reference dan amount harus diisi dengan benar"
ErrNewRequest == "gagal membuat request"
ErrSend == "gagal mengirim request"
ErrParse == "gagal parse response"
ErrReadBody == "gagal membaca response"

EmptyDate == [layout |-> "empty", t |-> 0]

\* the layouts each format string of time.Parse accepts; a fractional second is
\* accepted after the seconds field whether the format names it or not
Accepts(format) ==
    CASE format = "RFC3339" -> {"offset", "zulu", "millis"}
      [] format = "2006-01-02 15:04:05" -> {"space"}
      [] format = "2006-01-02T15:04:05Z" -> {"zulu", "millis"}
      [] format = "2006-01-02T15:04:05.000Z" -> {"millis"}

\* time.Parse(format, date): [t, ok]
Parse(format, date) ==
    IF date.layout \in Accepts(format)
    THEN [t |-> date.t, ok |-> TRUE]
    ELSE [t |-> ZeroTime, ok |-> FALSE]

\* the magnitude of a digit string, -1 when it exceeds MaxInt64
RECURSIVE Magnitude(_, _, _)
Magnitude(d, i, acc) ==
    IF acc < 0 \/ i > Len(d) THEN acc
    ELSE Magnitude(d, i + 1,
                   IF acc > (MaxInt64 - (d[i] - 48)) \div 10
                   THEN -1
                   ELSE 10 * acc + (d[i] - 48))

\* strconv.ParseInt(s, 10, 64) and strconv.Atoi(s): [val, ok]; a syntax error gives 0,
\* a value out of range gives the nearest bound
ParseInt(s) ==
    LET signed == s # <<>> /\ s[1] \in {43, 45}
        digits == IF signed THEN Tail(s) ELSE s
    IN  IF digits = <<>> \/ \E i \in 1..Len(digits) : digits[i] \notin 48..57
        THEN [val |-> 0, ok |-> FALSE]
        ELSE LET m == Magnitude(digits, 1, 0)
             IN  IF m = -1
                 THEN [val |-> IF s[1] = 45 THEN -MaxInt64 - 1 ELSE MaxInt64,
                       ok |-> FALSE]
                 ELSE [val |-> IF s[1] = 45 THEN -m ELSE m, ok |-> TRUE]

\* http.NewRequest("GET", url, nil) fails on a URL with a control character
newRequestFails(config) ==
    \E i \in 1..Len(config.MerchantID) :
        config.MerchantID[i] < 32 \/ config.MerchantID[i] = 127

\* the condition of the matching loop, payment_checker.go
isMatch(tx, amount, now) ==
    LET txAmount == ParseInt(tx.Amount).val
        txDate   == Parse("RFC3339", tx.Date).t
        timeDiff == now - txDate
    IN  /\ txAmount = amount
        /\ tx.QRIS = "static"
        /\ tx.Type = "CR"
        /\ timeDiff <= Window30

dateFormats ==
    <<"RFC3339", "2006-01-02 15:04:05", "2006-01-02T15:04:05Z",
      "2006-01-02T15:04:05.000Z">>

\* the first format of dateFormats that parses date, 0 when none does
RECURSIVE firstFormat(_, _)
firstFormat(date, k) ==
    IF k > Len(dateFormats) THEN 0
    ELSE IF Parse(dateFormats[k], date).ok THEN k
    ELSE firstFormat(date, k + 1)

\* the condition of the matching loop of the multi-format variant
isMatchMulti(tx, amount, now) ==
    LET txAmount == ParseInt(tx.Amount).val
        k        == firstFormat(tx.Date, 1)
    IN  /\ k # 0
        /\ LET timeDiff == now - Parse(dateFormats[k], tx.Date).t
           IN  /\ txAmount = amount
               /\ tx.QRIS = "static"
               /\ tx.Type = "CR"
               /\ timeDiff <= Window5

\* the loop over matchingTransactions[1:]: both variants parse with RFC3339 only
RECURSIVE latestLoop(_, _, _, _)
latestLoop(m, i, latestTx, latestDate) ==
    IF i > Len(m) THEN latestTx
    ELSE LET txDate == Parse("RFC3339", m[i].Date).t
         IN  IF txDate > latestDate
             THEN latestLoop(m, i + 1, m[i], txDate)
             ELSE latestLoop(m, i + 1, latestTx, latestDate)

latestOf(m) == latestLoop(m, 2, m[1], Parse("RFC3339", m[1].Date).t)

Unpaid(reference, amount) ==
    [Status |-> "UNPAID", Amount |-> amount, Reference |-> reference,
     Date |-> EmptyDate, BrandName |-> "", BuyerRef |-> ""]

Paid(latestTx) ==
    [Status |-> "PAID", Amount |-> ParseInt(latestTx.Amount).val,
     Reference |-> latestTx.IssuerRef, Date |-> latestTx.Date,
     BrandName |-> latestTx.BrandName, BuyerRef |-> latestTx.BuyerRef]

\* variant: a failed request is sent once more before the error is returned
requestsSent_RetryOnce(reply) == IF reply.kind = "neterror" THEN 2 ELSE 1

\* client.Do(req) is called once, whatever it returns
requestsSent(reply) == 1

\* variant: a body that does not decode is answered with UNPAID
decodeFailure_Unpaid(reference, amount) ==
    [status |-> Unpaid(reference, amount), err |-> Nil]

\* json Decode / Unmarshal returned an error
decodeFailure(reference, amount) ==
    [status |-> NoStatus, err |-> ErrParse]

\* variant: UNPAID carries the date of the first record
afterDecode_Shape(reference, amount, reply, matching) ==
    IF reply.status # "success" \/ Len(reply.data) = 0
    THEN Unpaid(reference, amount)
    ELSE IF Len(matching) > 0
    THEN Paid(latestOf(matching))
    ELSE [Unpaid(reference, amount) EXCEPT !.Date = reply.data[1].Date]

\* from the status test to the end, given the records the matching loop kept
afterDecode(reference, amount, reply, matching) ==
    IF reply.status # "success" \/ Len(reply.data) = 0
    THEN Unpaid(reference, amount)
    ELSE IF Len(matching) > 0
    THEN Paid(latestOf(matching))
    ELSE Unpaid(reference, amount)

\* variant: the amount argument is not checked
CheckPaymentStatusResult_NoAmountGuard(config, reference, amount, reply, now) ==
    IF reference = ""
    THEN [status |-> NoStatus, err |-> ErrArguments, requests |-> 0]
    ELSE IF newRequestFails(config)
    THEN [status |-> NoStatus, err |-> ErrNewRequest, requests |-> 0]
    ELSE IF reply.kind = "neterror"
    THEN [status |-> NoStatus, err |-> ErrSend, requests |-> requestsSent(reply)]
    ELSE IF reply.kind = "undecodable"
    THEN [status |-> decodeFailure(reference, amount).status,
          err |-> decodeFailure(reference, amount).err,
          requests |-> requestsSent(reply)]
    ELSE [status |-> afterDecode(reference, amount, reply,
                       SelectSeq(reply.data, LAMBDA tx : isMatch(tx, amount, now))),
          err |-> Nil, requests |-> requestsSent(reply)]

\* variant: only records whose issuer reference is the reference argument match
CheckPaymentStatusResult_RefFilter(config, reference, amount, reply, now) ==
    IF reference = "" \/ amount <= 0
    THEN [status |-> NoStatus, err |-> ErrArguments, requests |-> 0]
    ELSE IF newRequestFails(config)
    THEN [status |-> NoStatus, err |-> ErrNewRequest, requests |-> 0]
    ELSE IF reply.kind = "neterror"
    THEN [status |-> NoStatus, err |-> ErrSend, requests |-> requestsSent(reply)]
    ELSE IF reply.kind = "undecodable"
    THEN [status |-> decodeFailure(reference, amount).status,
          err |-> decodeFailure(reference, amount).err,
          requests |-> requestsSent(reply)]
    ELSE [status |-> afterDecode(reference, amount, reply,
                       SelectSeq(reply.data,
                                 LAMBDA tx : isMatch(tx, amount, now)
                                               /\ tx.IssuerRef = reference)),
          err |-> Nil, requests |-> requestsSent(reply)]

\* CheckPaymentStatus, qris/payment_checker.go: [status, err, requests]
CheckPaymentStatusResult(config, reference, amount, reply, now) ==
    IF reference = "" \/ amount <= 0
    THEN [status |-> NoStatus, err |-> ErrArguments, requests |-> 0]
    ELSE IF newRequestFails(config)
    THEN [status |-> NoStatus, err |-> ErrNewRequest, requests |-> 0]
    ELSE IF reply.kind = "neterror"
    THEN [status |-> NoStatus, err |-> ErrSend, requests |-> requestsSent(reply)]
    ELSE IF reply.kind = "undecodable"
    THEN [status |-> decodeFailure(reference, amount).status,
          err |-> decodeFailure(reference, amount).err,
          requests |-> requestsSent(reply)]
    ELSE [status |-> afterDecode(reference, amount, reply,
                       SelectSeq(reply.data, LAMBDA tx : isMatch(tx, amount, now))),
          err |-> Nil, requests |-> requestsSent(reply)]

\* CheckPaymentStatus of the multi-format variant: [status, err, requests]
CheckPaymentStatusMultiResult(config, reference, amount, reply, now) ==
    IF reference = "" \/ amount <= 0
    THEN [status |-> NoStatus, err |-> ErrArguments, requests |-> 0]
    ELSE IF newRequestFails(config)
    THEN [status |-> NoStatus, err |-> ErrNewRequest, requests |-> 0]
    ELSE IF reply.kind = "neterror"
    THEN [status |-> NoStatus, err |-> ErrSend, requests |-> requestsSent(reply)]
    ELSE IF reply.kind = "unreadable"
    THEN [status |-> NoStatus, err |-> ErrReadBody, requests |-> requestsSent(reply)]
    ELSE IF reply.kind = "undecodable"
    THEN [status |-> decodeFailure(reference, amount).status,
          err |-> decodeFailure(reference, amount).err,
          requests |-> requestsSent(reply)]
    ELSE [status |-> afterDecode(reference, amount, reply,
                       SelectSeq(reply.data, LAMBDA tx : isMatchMulti(tx, amount, now))),
          err |-> Nil, requests |-> requestsSent(reply)]

\* one record of the gateway's list; n tells the records apart
Tx(amount, layout, t, qris, type, n) ==
    [Amount |-> amount, Date |-> [layout |-> layout, t |-> t], QRIS |-> qris,
     Type |-> type, IssuerRef |-> n, BrandName |-> "brand " \o n,
     BuyerRef |-> "buyer " \o n]

A150 == <<49, 53, 48>>          \* "150"
A200 == <<50, 48, 48>>          \* "200"
\* a numeral beyond the integer range: "99999999999"
ATooLarge == <<57, 57, 57, 57, 57, 57, 57, 57, 57, 57, 57>>

\* the clock readings of the calls
Nows == {100, 125}

\* records of every kind, around the clock readings: old, on the edge of either
\* window, recent, in the future, in each layout, and failing each other condition
TxPool ==
    { Tx(A150, "offset", 69, "static", "CR", "r01"),
      Tx(A150, "offset", 70, "static", "CR", "r02"),
      Tx(A150, "offset", 95, "static", "CR", "r03"),
      Tx(A150, "offset", 99, "static", "CR", "r04"),
      Tx(A150, "offset", 180, "static", "CR", "r05"),
      Tx(A150, "zulu", 99, "static", "CR", "r06"),
      Tx(A150, "space", 96, "static", "CR", "r07"),
      Tx(A150, "space", 98, "static", "CR", "r08"),
      Tx(A150, "millis", 97, "static", "CR", "r09"),
      Tx(A150, "garbage", 0, "static", "CR", "r10"),
      Tx(<<97, 98, 99>>, "offset", 99, "static", "CR", "r11"),
      Tx(<<43>> \o A150, "offset", 98, "static", "CR", "r12"),
      Tx(A200, "offset", 99, "static", "CR", "r13"),
      Tx(A150, "offset", 99, "dynamic", "CR", "r14"),
      Tx(A150, "offset", 99, "static", "DB", "r15"),
      Tx(ATooLarge, "offset", 99, "static", "CR", "r16") }

\* what the gateway may answer: no answer, a body that is not the expected JSON,
\* or a decoded document
Replies ==
    [kind : {"neterror", "undecodable", "unreadable"}, status : {""}, data : {<<>>}]
      \cup [kind : {"json"}, status : {"success"}, data : SeqsUpTo(TxPool, MaxTx)]
      \cup [kind : {"json"}, status : {"error", ""}, data : SeqsUpTo(TxPool, 1)]

NoReply == [kind |-> "none", status |-> "", data |-> <<>>]

References == {"", "TRX123"}

PayAmounts == {-1, 0, 150, 200, MaxInt64}

\* a reference that happens to be the issuer reference of a record
OtherReferences == {"r04"}

PayConfigs ==
    {c \in ConcConfigs :
        c.BaseQrString
          = Header \o StaticPOI \o MerchantOK \o CountryID \o ChecksumTag \o OldCRC}

InitPay ==
    /\ q \in PayConfigs
    /\ call = [op |-> "none"]

\* the record of a call: arguments, the clock, the gateway's answer, the result
PayCall(variant, reference, amount, reply, now, r) ==
    call' = [op |-> "CheckPaymentStatus", variant |-> variant,
             reference |-> reference, amount |-> amount, now |-> now,
             reply |-> IF r.requests = 0 THEN NoReply ELSE reply,
             status |-> r.status, err |-> r.err, requests |-> r.requests]

CheckPaymentStatus(reference, amount) ==
    /\ Idle /\ q # NoInstance
    /\ \E reply \in Replies : \E now \in Nows :
          /\ reply.kind # "unreadable"
          /\ PayCall("30", reference, amount, reply, now,
                     CheckPaymentStatusResult(q, reference, amount, reply, now))
    /\ UNCHANGED q

CheckPaymentStatusMulti(reference, amount) ==
    /\ Idle /\ q # NoInstance
    /\ \E reply \in Replies : \E now \in Nows :
          PayCall("multi", reference, amount, reply, now,
                  CheckPaymentStatusMultiResult(q, reference, amount, reply, now))
    /\ UNCHANGED q

\* CheckPaymentStatus once more with another reference, the same amount, the same
\* answer of the gateway and the same clock reading
CheckOtherReference(reference) ==
    /\ call.op = "CheckPaymentStatus" /\ call.variant = "30"
    /\ call.requests > 0 /\ reference # call.reference
    /\ LET r == CheckPaymentStatusResult(q, reference, call.amount, call.reply,
                                         call.now)
       IN  call' = [op |-> "otherref", first |-> call, reference |-> reference,
                    status |-> r.status, err |-> r.err, requests |-> r.requests]
    /\ UNCHANGED q

NextPay ==
    \/ \E reference \in References : \E amount \in PayAmounts :
          CheckPaymentStatus(reference, amount)
    \/ \E reference \in References : \E amount \in PayAmounts :
          CheckPaymentStatusMulti(reference, amount)
    \/ \E reference \in OtherReferences : CheckOtherReference(reference)
    \/ Return

SpecPay == InitPay /\ [][NextPay]_vars

(***************************************************************************)
(* Vocabulary of the payment properties                                    *)
(***************************************************************************)
CheckedPayment(variant) == call.op = "CheckPaymentStatus" /\ call.variant = variant

\* the gateway answered status "success" with a non-empty list
Answered == call.reply.kind = "json" /\ call.reply.status = "success"
               /\ Len(call.reply.data) > 0

\* the text is a decimal numeral, with or without a sign, of value n
Denotes(text, n) ==
    LET d == IF text # <<>> /\ text[1] = 43 THEN Tail(text) ELSE text
    IN  d # <<>> /\ Len(d) <= 9 /\ IsDecimal(d) /\ DecValue(d) = n

\* the date text carries a timestamp the reader of the given variant understands
Timestamped(tx, variant) ==
    IF variant = "30"
    THEN tx.Date.layout \in {"offset", "zulu", "millis"}
    ELSE tx.Date.layout \in {"offset", "zulu", "millis", "space"}

Distance(a, b) == IF a >= b THEN a - b ELSE b - a

Window(variant) == IF variant = "30" THEN 30 ELSE 5

\* the matching rule: amount, channel, direction, and a timestamp no further than
\* the recency window from the current time
Matching(tx, variant) ==
    /\ Denotes(tx.Amount, call.amount)
    /\ tx.QRIS = "static"
    /\ tx.Type = "CR"
    /\ Timestamped(tx, variant)
    /\ Distance(call.now, tx.Date.t) <= Window(variant)

\* the matching rule for a given amount and clock reading
MatchingAt(tx, amount, now, variant) ==
    /\ Denotes(tx.Amount, amount)
    /\ tx.QRIS = "static"
    /\ tx.Type = "CR"
    /\ Timestamped(tx, variant)
    /\ Distance(now, tx.Date.t) <= Window(variant)

\* the answer is a "success" document holding a record that matches
HoldsMatch(reply, amount, now) ==
    /\ reply.kind = "json" /\ reply.status = "success"
    /\ \E i \in 1..Len(reply.data) : MatchingAt(reply.data[i], amount, now, "30")

\* the status carries the date and the three references of record tx
Carries(status, tx) ==
    /\ status.Date = tx.Date
    /\ status.Reference = tx.IssuerRef
    /\ status.BrandName = tx.BrandName
    /\ status.BuyerRef = tx.BuyerRef

\* the PAID status is that of a matching record than which no matching record is later
CarriesLatestMatching(variant) ==
    LET data == call.reply.data
    IN  \E i \in 1..Len(data) :
           /\ Matching(data[i], variant)
           /\ Carries(call.status, data[i])
           /\ \A j \in 1..Len(data) :
                 Matching(data[j], variant) => data[j].Date.t <= data[i].Date.t

(***************************************************************************)
(* C13.  When the gateway answers status "success" with a non-empty list,  *)
(* CheckPaymentStatus returns PAID exactly when some record has the        *)
(* requested amount, qris "static", type "CR" and a timestamp no more than *)
(* 30 minutes away from the current time; otherwise it returns UNPAID.     *)
(***************************************************************************)
C13_MatchingRule ==
    (CheckedPayment("30") /\ call.err = Nil /\ Answered) =>
       /\ call.status.Status \in {"PAID", "UNPAID"}
       /\ call.status.Status = "PAID"
             <=> \E i \in 1..Len(call.reply.data) : Matching(call.reply.data[i], "30")

(***************************************************************************)
(* C14.  When several records match, the PAID status carries Date,         *)
(* Reference, BrandName and BuyerRef of the matching record with the       *)
(* latest timestamp, in whatever order the gateway lists the records.      *)
(***************************************************************************)
C14_LatestMatchWins ==
    (CheckedPayment("30") /\ call.err = Nil /\ Answered
        /\ call.status.Status = "PAID") => CarriesLatestMatching("30")

(***************************************************************************)
(* C15.  As claimed: a body that cannot be decoded, a status other than    *)
(* "success" or an empty list makes CheckPaymentStatus return UNPAID with  *)
(* a nil error.                                                            *)
(***************************************************************************)
C15_MalformedIsUnpaid_Original ==
    (CheckedPayment("30") /\ call.requests > 0 /\ call.reply.kind # "neterror"
        /\ ~Answered)
      => call.err = Nil /\ call.status = Unpaid(call.reference, call.amount)

(***************************************************************************)
(* C15, amended.  A decoded answer whose status is not "success" or whose  *)
(* list is empty makes CheckPaymentStatus return UNPAID with a nil error;  *)
(* a body that cannot be decoded makes it return no status and an error.   *)
(***************************************************************************)
C15_MalformedAnswer ==
    (CheckedPayment("30") /\ call.requests > 0 /\ call.reply.kind # "neterror"
        /\ ~Answered)
      => IF call.reply.kind = "json"
         THEN /\ call.err = Nil
              /\ call.status.Status = "UNPAID"
              /\ call.status.Amount = call.amount
              /\ call.status.Reference = call.reference
         ELSE call.err = ErrParse /\ call.status = NoStatus

C15_Witness ==
    /\ CheckedPayment("30")
    /\ call.reply.kind = "undecodable"
    /\ call.err = ErrParse

C15_WitnessUnpaid ==
    /\ CheckedPayment("30")
    /\ call.reply.kind = "json" /\ call.reply.status = "error"
    /\ Len(call.reply.data) > 0
    /\ call.err = Nil /\ call.status.Status = "UNPAID"

(***************************************************************************)
(* C16.  No internal retry: a call of CheckPaymentStatus sends at most one *)
(* request to the gateway, and when the request fails the call returns an  *)
(* error, and no status, having sent that one request only.                *)
(***************************************************************************)
C16_NoRetry ==
    call.op = "CheckPaymentStatus" =>
       /\ call.requests \in {0, 1}
       /\ call.reply.kind = "neterror"
             => call.requests = 1 /\ call.err = ErrSend /\ call.status = NoStatus

C16_Witness ==
    /\ call.op = "CheckPaymentStatus"
    /\ call.reply.kind = "neterror"
    /\ call.requests = 1
    /\ call.err = ErrSend

(***************************************************************************)
(* C17.  Result shape: a call returns either no status and an error, or a  *)
(* status and no error, never both and never neither; Status is "PAID" or  *)
(* "UNPAID"; an UNPAID status echoes the requested amount and reference    *)
(* with Date, BrandName and BuyerRef empty; a PAID status has the          *)
(* requested amount.                                                       *)
(***************************************************************************)
C17_ResultShape ==
    call.op = "CheckPaymentStatus" =>
       /\ (call.status = NoStatus) <=> (call.err # Nil)
       /\ call.status # NoStatus =>
             /\ call.status.Status \in {"PAID", "UNPAID"}
             /\ call.status.Amount = call.amount
             /\ call.status.Status = "UNPAID" =>
                   /\ call.status.Reference = call.reference
                   /\ call.status.Date = EmptyDate
                   /\ call.status.BrandName = ""
                   /\ call.status.BuyerRef = ""

C17_Witness ==
    /\ call.op = "CheckPaymentStatus"
    /\ call.err = Nil
    /\ call.status.Status = "UNPAID"
    /\ Answered

C17_WitnessPaid ==
    /\ call.op = "CheckPaymentStatus"
    /\ call.err = Nil
    /\ call.status.Status = "PAID"
    /\ call.status.Amount = 150

(***************************************************************************)
(* C19.  In the multi-format variant, when several records match, the      *)
(* PAID status is that of the matching record with the latest timestamp,   *)
(* in every date format the matching loop accepts.                         *)
(***************************************************************************)
C19_LatestMatchWinsMulti ==
    (CheckedPayment("multi") /\ call.err = Nil /\ Answered
        /\ call.status.Status = "PAID") => CarriesLatestMatching("multi")


(***************************************************************************)
(* The polling loop of examples/main.go: for { check; sleep }.             *)
(* pc: "top" at the head of the loop body, "call" before CheckPaymentStatus,*)
(* "sleep" before time.Sleep, "done" after break.                          *)
(***************************************************************************)
MaxCycles == 4

\* the answers the gateway gives the poller: none, not decodable, or a document
\* with no record or one
PollReplies == {r \in Replies : r.kind # "unreadable" /\ Len(r.data) <= 1}

InitPoll ==
    /\ q \in PayConfigs
    /\ call = [op |-> "poll", pc |-> "top", cycles |-> 0, checks |-> 0, sleeps |-> 0,
               clock |-> 100, result |-> [status |-> NoStatus, err |-> Nil],
               paying |-> FALSE, answer |-> NoReply]

\* variant: the loop is left when the check returns an error
afterCheck_BreakOnError(r) ==
    IF r.err # Nil THEN "done"
    ELSE IF r.status.Status = "PAID" THEN "done"
    ELSE "sleep"

\* where the loop body goes with the result of the check
afterCheck(r) ==
    IF r.err # Nil THEN "sleep"
    ELSE IF r.status.Status = "PAID" THEN "done"
    ELSE "sleep"

\* for { fmt.Println("Mengecek status pembayaran...")
PollBegin ==
    /\ call.op = "poll" /\ call.pc = "top"
    /\ call.cycles < MaxCycles
    /\ call' = [call EXCEPT !.pc = "call", !.cycles = @ + 1]
    /\ UNCHANGED q

\* status, err := qrisInstance.CheckPaymentStatus("TRX123", 150) and the branches
PollCheck ==
    /\ call.op = "poll" /\ call.pc = "call"
    /\ \E reply \in PollReplies : \E now \in Nows :
          /\ now >= call.clock
          /\ call.paying => HoldsMatch(reply, 150, now)
          /\ LET r == CheckPaymentStatusResult(q, "TRX123", 150, reply, now)
             IN  call' = [call EXCEPT !.pc = afterCheck(r), !.checks = @ + 1,
                                      !.clock = now, !.answer = reply,
                                      !.result = [status |-> r.status, err |-> r.err]]
    /\ UNCHANGED q

\* time.Sleep(5 * time.Second), then continue or the end of the loop body
PollSleep ==
    /\ call.op = "poll" /\ call.pc = "sleep"
    /\ call' = [call EXCEPT !.pc = "top", !.sleeps = @ + 1]
    /\ UNCHANGED q

NextPoll ==
    \/ PollBegin
    \/ PollCheck
    \/ PollSleep

SpecPoll == InitPoll /\ [][NextPoll]_vars

\* the payment arrives at the gateway: from now on every answer holds a matching
\* record (while the loop has a cycle left to ask in)
GatewaySettles ==
    /\ call.op = "poll" /\ ~call.paying
    /\ call.pc = "call" \/ (call.pc \in {"top", "sleep"} /\ call.cycles < MaxCycles)
    /\ call' = [call EXCEPT !.paying = TRUE]
    /\ UNCHANGED q

NextPollFair ==
    \/ NextPoll
    \/ GatewaySettles

\* the steps of the loop are taken when they can be; the gateway owes nothing
SpecPollFair ==
    /\ InitPoll /\ [][NextPollFair]_vars
    /\ WF_vars(PollBegin) /\ WF_vars(PollCheck) /\ WF_vars(PollSleep)

(***************************************************************************)
(* C20.  The polling loop is left only in a cycle whose CheckPaymentStatus *)
(* returned Status "PAID"; after a cycle that returned an error or UNPAID  *)
(* it sleeps once and starts another cycle; every cycle makes exactly one  *)
(* CheckPaymentStatus call; nothing but PAID ends the loop, however many   *)
(* cycles have run.                                                        *)
(***************************************************************************)
ReturnedPaid(c) == c.result.err = Nil /\ c.result.status.Status = "PAID"

C20_PollLoop ==
    [][ /\ call'.pc = "done" => call.pc = "call" /\ ReturnedPaid(call')
        /\ (call.pc = "call" /\ ~ReturnedPaid(call'))
              => call'.pc = "sleep" /\ call'.sleeps = call.sleeps
        /\ call.pc = "call"
              => call'.checks = call.checks + 1 /\ call'.cycles = call.cycles
        /\ call.pc = "sleep"
              => /\ call'.pc = "top" /\ call'.sleeps = call.sleeps + 1
                 /\ call'.checks = call.checks /\ call'.cycles = call.cycles
        /\ call.pc = "top"
              => /\ call'.pc = "call" /\ call'.cycles = call.cycles + 1
                 /\ call'.checks = call.checks /\ call'.sleeps = call.sleeps
        /\ call'.pc \in {"top", "sleep", "done"} => call'.checks = call'.cycles
        /\ call'.pc = "top" => call'.sleeps = call'.cycles
      ]_vars

\* the loop has ended in its last allowed cycle, after cycles that failed or were UNPAID
C20_Witness ==
    /\ call.op = "poll"
    /\ call.pc = "done"
    /\ call.cycles = MaxCycles
    /\ call.checks = MaxCycles
    /\ call.sleeps = MaxCycles - 1


(***************************************************************************)
(* C23.  On every instance NewQRIS returned, GetQRISString with            *)
(* amount > 0 and a non-empty transactionID succeeds: the country anchor   *)
(* accepted at construction is found during the build.                     *)
(***************************************************************************)
C23_BuildAlwaysSucceeds ==
    (call.op = "GetQRISString" /\ call.data.Amount > 0
        /\ call.data.TransactionID # "")
      => call.err = Nil /\ ~call.panic /\ Len(call.payload) > 0

(***************************************************************************)
(* C24.  No slice runs out of range: on every instance NewQRIS returned    *)
(* the base is sliced at len-4 with len >= 4, and ValidateQRISString       *)
(* slices its argument at len-4 only when it has at least 4 characters.    *)
(***************************************************************************)
C24_SlicesInRange ==
    /\ call.op \in {"GetQRISString", "GenerateQRCode"} =>
          /\ ~call.panic
          /\ (call.data.Amount > 0 /\ call.data.TransactionID # "")
                => Len(q.BaseQrString) >= 4
    /\ (call.op = "ValidateQRISString"
          /\ \E k \in 1..Len(call.evaluated) : call.evaluated[k] = "crc")
         => Len(call.input) >= 4

\* the build ran on the shortest base NewQRIS accepts, and sliced it
C24_Witness ==
    /\ call.op = "GetQRISString"
    /\ call.data.Amount > 0 /\ call.data.TransactionID # ""
    /\ Len(q.BaseQrString) < MinQRISLength
    /\ call.err = Nil /\ ~call.panic

(***************************************************************************)
(* C25.  The payload does not depend on the transactionID beyond its       *)
(* being non-empty: GetQRISString called again on the instance with the    *)
(* same amount and another non-empty transactionID returns the same        *)
(* string (and the same error, if any).                                    *)
(***************************************************************************)
C25_IgnoresTransactionID ==
    call.op = "otherid" =>
       /\ call.again.str = call.first.payload
       /\ call.again.err = call.first.err
       /\ call.again.panic = call.first.panic

C25_Witness ==
    /\ call.op = "otherid"
    /\ call.first.data.TransactionID = "T1" /\ call.data.TransactionID = "T2"
    /\ call.again.err = Nil
    /\ Len(call.again.str) > 0

(***************************************************************************)
(* C28.  As claimed: GenerateQRCode and GetQRISString fail on exactly the  *)
(* same inputs, and on success the string handed to the renderer is the    *)
(* string GetQRISString returns, requested with the high level.            *)
(***************************************************************************)
\* what GetQRISString returns for the data of the GenerateQRCode call in hand
SameGet == GetQRISStringResult(q, call.data)

C28_SameFailures_Original ==
    call.op = "GenerateQRCode" =>
       /\ (call.err # Nil \/ call.panic) <=> (SameGet.err # Nil \/ SameGet.panic)
       /\ (call.err = Nil /\ ~call.panic)
             => call.handed /\ call.content = SameGet.str /\ call.level = "High"

(***************************************************************************)
(* C28, amended.  GenerateQRCode fails whenever GetQRISString fails on the *)
(* same data; whenever GetQRISString succeeds, GenerateQRCode hands        *)
(* exactly the returned string to the renderer with the high level, and    *)
(* fails only if the renderer rejects it.                                  *)
(***************************************************************************)
C28_SamePayload ==
    call.op = "GenerateQRCode" =>
       /\ SameGet.panic <=> call.panic
       /\ SameGet.err # Nil => call.err # Nil /\ ~call.handed /\ ~call.code
       /\ (SameGet.err = Nil /\ ~SameGet.panic) =>
             /\ call.handed
             /\ call.content = SameGet.str
             /\ call.level = "High"
             /\ call.err \in {Nil, ErrRender}
             /\ call.code <=> call.err = Nil

C28_Witness ==
    /\ call.op = "GenerateQRCode"
    /\ call.err = Nil /\ call.handed /\ call.code
    /\ call.content = SameGet.str
    /\ Len(call.content) >= MinQRISLength

C28_WitnessRejected ==
    /\ call.op = "GenerateQRCode"
    /\ call.err = ErrRender
    /\ SameGet.err = Nil


(***************************************************************************)
(* C22.  CheckPaymentStatus called with an empty reference or an           *)
(* amount <= 0 returns an error and no status, and sends no request to     *)
(* the gateway.                                                            *)
(***************************************************************************)
C22_ArgumentGuard ==
    (call.op = "CheckPaymentStatus" /\ (call.reference = "" \/ call.amount <= 0))
      => /\ call.err = ErrArguments
         /\ call.status = NoStatus
         /\ call.requests = 0
         /\ call.reply = NoReply

C22_Witness ==
    /\ call.op = "CheckPaymentStatus"
    /\ call.reference # "" /\ call.amount < 0
    /\ call.err = ErrArguments /\ call.requests = 0

C22_WitnessReference ==
    /\ call.op = "CheckPaymentStatus"
    /\ call.reference = "" /\ call.amount > 0
    /\ call.err = ErrArguments /\ call.requests = 0

(***************************************************************************)
(* C26.  The PAID/UNPAID decision does not depend on the reference:        *)
(* against the same answer and the same clock reading, two calls with the  *)
(* same amount and two different non-empty references both return PAID     *)
(* with the same details, or both return UNPAID and differ only in the     *)
(* reference they echo, or both return the same error.                     *)
(***************************************************************************)
C26_IgnoresReference ==
    call.op = "otherref" =>
       /\ call.err = call.first.err
       /\ call.err = Nil =>
             /\ call.status.Status = call.first.status.Status
             /\ call.status.Status = "PAID" => call.status = call.first.status
             /\ call.status.Status = "UNPAID" =>
                   /\ call.status.Reference = call.reference
                   /\ call.first.status.Reference = call.first.reference
                   /\ call.status
                        = [call.first.status EXCEPT !.Reference = call.reference]

\* the second reference is the issuer reference of the record that was paid
C26_Witness ==
    /\ call.op = "otherref"
    /\ call.err = Nil
    /\ call.status.Status = "PAID"
    /\ call.first.reference = "TRX123"
    /\ call.reference = call.status.Reference

C26_WitnessUnpaid ==
    /\ call.op = "otherref"
    /\ call.err = Nil
    /\ call.status.Status = "UNPAID"
    /\ Len(call.first.reply.data) > 0
    /\ call.first.reply.status = "success"

(***************************************************************************)
(* C27.  A record whose amount is not a parsable integer, or whose date    *)
(* is not in the expected timestamp format, is never counted as a match,   *)
(* whatever its qris and type and whatever the positive amount asked for:  *)
(* a PAID status is always that of a record with a parsable amount and a   *)
(* readable date.                                                          *)
(***************************************************************************)
\* a decimal numeral, with or without a sign, short enough to be in range
ParsableAmount(text) ==
    LET d == IF text # <<>> /\ text[1] \in {43, 45} THEN Tail(text) ELSE text
    IN  d # <<>> /\ IsDecimal(d) /\ Len(d) <= 9

C27_UnparsableNeverMatches ==
    (CheckedPayment("30") /\ call.err = Nil /\ call.status.Status = "PAID") =>
       \E i \in 1..Len(call.reply.data) :
          /\ Carries(call.status, call.reply.data[i])
          /\ ParsableAmount(call.reply.data[i].Amount)
          /\ Timestamped(call.reply.data[i], "30")


(***************************************************************************)
(* C21.  Liveness of the polling loop, its steps being weakly fair: if     *)
(* from some point on every answer of the gateway holds a record matching  *)
(* the requested amount within the recency window, the loop eventually     *)
(* ends, having seen PAID; if no answer ever holds a matching record, the  *)
(* loop never ends.                                                        *)
(***************************************************************************)
PollDone == call.pc = "done" /\ ReturnedPaid(call)

\* the last answer held a matching record
GoodAnswer == HoldsMatch(call.answer, 150, call.clock)

C21_PollLiveness ==
    /\ <>[](call.paying) => <>PollDone
    /\ [](~GoodAnswer) => [](call.pc # "done")

=============================================================================
